---- MODULE Spec2Model ----
(***************************************************************************)
(* Bi-temporal event-sourced object store (store/client.py,                *)
(* store/schema.py, store/permissions.py, store/state_machine.py).         *)
(*                                                                         *)
(* The model follows the code at the granularity of one database           *)
(* statement per step: every client owns one connection, a call is a       *)
(* sequence of statements, and statements of different clients interleave. *)
(* The table object_events is the set `events`; rows written inside an     *)
(* open transaction (write_many / update_many) are held in `pending` until *)
(* the commit and are visible to their own connection only.                *)
(***************************************************************************)
EXTENDS Integers, FiniteSets, Sequences, TLC

\* ---- bounds of the model -------------------------------------------------
\* entity ids available, rows in the table, sharing statements that change
\* a row, objects in one bulk call, latest now() at which a bulk call begins
MaxEntities == 2
MaxEvents == 3
MaxShares == 2
MaxBatch == 2
MaxClock == 4
MaxStarts == 2
MaxQueue == 2
MaxSubs == 3
MaxNodes == 2
MaxEffects == 2
MaxFields == 3

\* ---- the world -------------------------------------------------------------
\* provisioned users (tests/test_store.py fixtures); every user holds one
\* StoreClient, so a client is named by its user
Users == {"alice", "bob"}
ADMIN_ROLE == "app_admin"
Entities == 1..MaxEntities
\* values of the Order.quantity field, the part of `data` the guard reads
Quantities == {0, 1}

\* orders whose guard Field("quantity") > Const(0) passes
Positive == {q \in Quantities : q > 0}

VARIABLES
    events,     \* committed rows of object_events
    pending,    \* pending[c]: rows inserted by c's open transaction
    clock,      \* the substrate's now(), read once per transaction
    pc,         \* pc[c]: position of client c inside its current call
    loc,        \* loc[c]: local variables and outcome of c's current/last call
    obj,        \* obj[c][e]: c's in-memory object for entity e (_store_* fields)
    tx,         \* tx[c]: bulk call in progress on c's connection
    ret,        \* what the step just taken returned or raised to its caller
    nshare,     \* number of sharing statements that changed a row so far
    lsn,        \* the SubscriptionListener, its checkpoint row and its event bus
    bus,        \* an EventBus: its three registries and the emit in progress
    rg          \* a ReactiveGraph: its _nodes, the group and the reaktiv cells

vars == <<events, pending, clock, pc, loc, obj, tx, ret, nshare, lsn, bus, rg>>

\* ---- helpers ---------------------------------------------------------------
NoObj == [version |-> 0, state |-> "none", data |-> 0, sm |-> "none"]

\* local variables of a call in flight; held is the object's _store_version and
\* true_max the entity's highest committed version when the call began, role
\* the caller's capability on the entity when the call read its permissions
NoCall == [op |-> "none", e |-> 0, next_ver |-> 0, owner |-> "none",
           readers |-> {}, writers |-> {}, state |-> "none", data |-> 0,
           held |-> 0, true_max |-> 0, role |-> "unset", err |-> "none",
           from_state |-> "none", effects |-> <<>>]

\* no call ended in the step just taken
NoRet == [c |-> "none", op |-> "none", e |-> 0, outcome |-> "none",
          held |-> 0, true_max |-> 0, role |-> "unset", actual |-> 0,
          inserted |-> 0, from_state |-> "none", to_state |-> "none",
          effects |-> <<>>]

\* no bulk call is running; before is the metadata the caller's objects had
\* when the bulk call began
NoTx == [mode |-> "none", rest |-> <<>>, start |-> 0,
         before |-> [e \in Entities |-> NoObj]]

RowsOf(e, S) == {r \in S : r.eid = e}

MaxVer(S) == IF S = {} THEN 0
             ELSE CHOOSE v \in {r.version : r \in S} :
                      \A r \in S : r.version <= v

\* ORDER BY version DESC LIMIT 1 (S non-empty)
LatestRow(S) == CHOOSE r \in S : r.version = MaxVer(S)

\* ---- row-level security (store/schema.py) -----------------------------------
admin_all(c) == c = ADMIN_ROLE

\* a SELECT policy that shows every row to every user
user_select_all(c, r) == TRUE

user_select(c, r) == r.owner = c \/ c \in r.readers \/ c \in r.writers

\* an INSERT policy that lets any user append later versions
user_insert_any_appender(c, r) ==
    /\ r.updated_by = c
    /\ \/ r.owner = c
       \/ r.version > 1

user_insert(c, r) ==
    /\ r.updated_by = c
    /\ \/ r.owner = c
       \/ (c \in r.writers /\ r.version > 1)

\* a policy for UPDATE that admits every row the user can see
user_update_any(c, r) == TRUE

user_update(c, r) == r.owner = c \/ c \in r.writers

\* what one statement of connection c reads: committed rows plus the rows of
\* its own open transaction, filtered by the SELECT policy
Snapshot(c) == events \cup pending[c]

View(c) == {r \in Snapshot(c) : admin_all(c) \/ user_select(c, r)}

\* the capability of user c on entity e over its committed versions
Role(c, e) ==
    LET R == RowsOf(e, events)
    IN  IF \E r \in R : r.owner = c THEN "owner"
        ELSE IF \E r \in R : c \in r.writers THEN "writer"
        ELSE IF \E r \in R : c \in r.readers THEN "reader"
        ELSE "none"

\* StoreClient._next_version
_next_version(c, e) == MaxVer(RowsOf(e, View(c))) + 1

\* ---- INSERT INTO object_events ------------------------------------------------
SameKey(r, s) == r.eid = s.eid /\ r.version = s.version

\* another open transaction holds an uncommitted row with the same
\* (entity_id, version): the insert waits for that transaction to end
Blocked(c, r) == \E d \in Users \ {c} : \E s \in pending[d] : SameKey(r, s)

\* a table without UNIQUE (entity_id, version)
InsertOutcomeNoUnique(c, r) ==
    IF ~(admin_all(c) \/ user_insert(c, r)) THEN "InsufficientPrivilege"
    ELSE "ok"

\* the statement's result: the policy's WITH CHECK runs before the row
\* reaches the unique index
InsertOutcome(c, r) ==
    IF ~(admin_all(c) \/ user_insert(c, r)) THEN "InsufficientPrivilege"
    ELSE IF \E s \in Snapshot(c) : SameKey(r, s) THEN "UniqueViolation"
    ELSE "ok"

InTx(c) == tx[c].mode # "none"

AllRows == events \cup UNION {pending[c] : c \in Users}

\* the table has room for one more row
Room == Cardinality(AllRows) < MaxEvents

\* a now() that inside a transaction is the time the session was opened
TxTimeOfSession(c) == IF InTx(c) THEN 1 ELSE clock + 1

\* tx_time DEFAULT now(): the start time of the statement's transaction
TxTime(c) == IF InTx(c) /\ tx[c].start # 0 THEN tx[c].start ELSE clock + 1

NewRow(c, e, ver, owner, readers, writers, data, state, kind) ==
    [eid |-> e, version |-> ver, owner |-> owner, updated_by |-> c,
     readers |-> readers, writers |-> writers, data |-> data,
     state |-> state, event_type |-> kind, tx_time |-> TxTime(c)]

\* a store that keeps only the newest row of an entity
StoreOverwrite(c, r) ==
    IF InTx(c)
    THEN /\ pending' = [pending EXCEPT ![c] = @ \cup {r}]
         /\ UNCHANGED <<events, clock>>
    ELSE /\ events' = (events \ RowsOf(r.eid, events)) \cup {r}
         /\ clock' = clock + 1
         /\ UNCHANGED pending

\* effect of a successful INSERT on the table, the open transaction and now()
Store(c, r) ==
    IF InTx(c)
    THEN /\ pending' = [pending EXCEPT ![c] = @ \cup {r}]
         /\ UNCHANGED <<events, clock>>
    ELSE /\ events' = events \cup {r}
         /\ clock' = clock + 1
         /\ UNCHANGED pending

NoStore == UNCHANGED <<events, pending, clock>>

\* where a call returns to: the caller, or the loop of a bulk call
AfterCall(c, outcome) ==
    IF ~InTx(c) THEN "idle"
    ELSE IF outcome = "ok" THEN "tx" ELSE "tx_abort"

\* call l of client c is over: what its caller observes (the value or the
\* exception, VersionConflict's actual_version, the version it inserted)
Return(c, l, outcome, actual, inserted) ==
    /\ ret' = [c |-> c, op |-> l.op, e |-> l.e, outcome |-> outcome,
               held |-> l.held, true_max |-> l.true_max, role |-> l.role,
               actual |-> actual, inserted |-> inserted,
               from_state |-> l.from_state,
               to_state |-> IF l.op = "transition" THEN l.state ELSE "none",
               effects |-> IF inserted > 0 THEN l.effects ELSE <<>>]
    /\ loc' = [loc EXCEPT ![c] =
                 IF InTx(c) /\ outcome # "ok"
                 THEN [NoCall EXCEPT !.err = outcome] ELSE NoCall]
    /\ pc' = [pc EXCEPT ![c] = AfterCall(c, outcome)]

\* the call goes on with local variables l at position p
Continue(c, l, p) ==
    /\ ret' = NoRet
    /\ loc' = [loc EXCEPT ![c] = l]
    /\ pc' = [pc EXCEPT ![c] = p]

\* the transaction's first statement fixes its now()
Started(c) ==
    [tx[c] EXCEPT !.rest = Tail(@),
                  !.start = IF @ = 0 THEN clock + 1 ELSE @]

Tick(c) == IF tx[c].start = 0 THEN clock + 1 ELSE clock

\* ---- write ------------------------------------------------------------------
\* ids that were issued before: those of stored rows and those of objects a
\* client still holds (an id issued to a rolled-back write is not issued again)
UsedIds == {r.eid : r \in AllRows}
           \cup {e \in Entities : \E c \in Users : obj[c][e] # NoObj}

\* uuid.uuid4(): an id no row carries yet
FreshId == CHOOSE e \in Entities \ UsedIds : \A f \in Entities \ UsedIds : e <= f

initial == "PENDING"

\* StoreClient.write of an object whose _state_machine is sm with initial
\* state s0: one INSERT, owner and updated_by default to current_user
WriteBodyAs(c, d, sm, s0) ==
    LET e == FreshId
        r == NewRow(c, e, 1, c, {}, {}, d, s0, "CREATED")
    IN  /\ InsertOutcome(c, r) = "ok"
        /\ Store(c, r)
        /\ obj' = [obj EXCEPT ![c][e] =
                     [version |-> 1, state |-> s0, data |-> d, sm |-> sm]]
        /\ ret' = [NoRet EXCEPT !.c = c, !.op = "write", !.e = e,
                                !.outcome = "ok", !.inserted = 1]

\* StoreClient.write of an Order
WriteBody(c, d) == WriteBodyAs(c, d, "OrderLifecycle", initial)

write(c, d) ==
    /\ pc[c] = "idle"
    /\ Entities \ UsedIds # {}
    /\ Room
    /\ WriteBody(c, d)
    /\ UNCHANGED <<pc, loc, tx, nshare>>

\* ---- update -----------------------------------------------------------------
\* client.py 121-130: _next_version, then the optimistic version check
UpdateStart(c, e, d, op) ==
    LET next_ver == _next_version(c, e)
        actual == next_ver - 1
        l == [NoCall EXCEPT !.op = op, !.e = e, !.next_ver = next_ver,
                            !.state = obj[c][e].state, !.data = d,
                            !.held = obj[c][e].version,
                            !.true_max = MaxVer(RowsOf(e, events))]
    IN  /\ obj[c][e] # NoObj
        /\ obj' = [obj EXCEPT ![c][e].data = d]
        /\ IF actual # obj[c][e].version
           THEN Return(c, l, "VersionConflict", actual, 0)
           ELSE Continue(c, l, IF op = "delete" THEN "del_select"
                                ELSE "upd_select")
        /\ clock' = IF InTx(c) THEN Tick(c) ELSE clock
        /\ UNCHANGED <<events, pending>>

update_begin(c, e, d) ==
    /\ pc[c] = "idle"
    /\ UpdateStart(c, e, d, "update")
    /\ UNCHANGED <<tx, nshare>>

\* client.py 144-163: copy owner, readers, writers of the latest visible
\* version; only the owner or a writer may go on
update_select(c) ==
    /\ pc[c] = "upd_select"
    /\ LET S == RowsOf(loc[c].e, View(c))
           original_owner == IF S # {} THEN LatestRow(S).owner ELSE c
           readers == IF S # {} THEN LatestRow(S).readers ELSE {}
           writers == IF S # {} THEN LatestRow(S).writers ELSE {}
           l == [loc[c] EXCEPT !.owner = original_owner,
                               !.readers = readers, !.writers = writers,
                               !.role = Role(c, loc[c].e)]
       IN  IF c # original_owner /\ c \notin writers
           THEN Return(c, l, "PermissionError", 0, 0)
           ELSE Continue(c, l, "upd_insert")
    /\ UNCHANGED <<events, pending, clock, obj, tx, nshare>>

\* the row a call is about to insert
CallRow(c, readers, writers, state, kind) ==
    NewRow(c, loc[c].e, loc[c].next_ver, loc[c].owner, readers, writers,
           loc[c].data, state, kind)

\* the INSERT of update / delete / transition and the write-back onto the
\* object (client.py 165-180, 214-228, 283-300); `raised` is what the call
\* raises after a successful INSERT ("ok" if it returns)
InsertStep(c, r, raised) ==
    LET out == InsertOutcome(c, r)
    IN  /\ ~(out # "InsufficientPrivilege" /\ Blocked(c, r))
        /\ IF out = "ok"
           THEN /\ Room
                /\ Store(c, r)
                /\ obj' = [obj EXCEPT ![c][r.eid].version = r.version,
                                      ![c][r.eid].state = r.state]
                /\ Return(c, loc[c], raised, 0, r.version)
           ELSE /\ NoStore
                /\ obj' = obj
                /\ Return(c, loc[c], out, 0, 0)

update_insert(c) ==
    /\ pc[c] = "upd_insert"
    /\ InsertStep(c, CallRow(c, loc[c].readers, loc[c].writers,
                             loc[c].state, "UPDATED"), "ok")
    /\ UNCHANGED <<tx, nshare>>

\* ---- delete -----------------------------------------------------------------
\* client.py 189-198: the same version check as update
delete_begin(c, e) ==
    /\ pc[c] = "idle"
    /\ UpdateStart(c, e, obj[c][e].data, "delete")
    /\ UNCHANGED <<tx, nshare>>

\* client.py 202-212: only the owner is carried forward
delete_select(c) ==
    /\ pc[c] = "del_select"
    /\ LET S == RowsOf(loc[c].e, View(c))
           original_owner == IF S # {} THEN LatestRow(S).owner ELSE c
       IN  Continue(c, [loc[c] EXCEPT !.owner = original_owner,
                                       !.role = Role(c, loc[c].e)],
                    "del_insert")
    /\ UNCHANGED <<events, pending, clock, obj, tx, nshare>>

\* client.py 214-228: the INSERT names no readers and no writers, so the
\* tombstone takes the column defaults '{}'
delete_insert(c) ==
    /\ pc[c] = "del_insert"
    /\ InsertStep(c, CallRow(c, {}, {}, loc[c].state, "DELETED"), "ok")
    /\ UNCHANGED <<tx, nshare>>

\* ---- state machines (store/state_machine.py, demo_three_tiers.py) ------------
\* the states of OrderLifecycle
States == {"PENDING", "FILLED", "CANCELLED", "SETTLED"}

\* a Transition edge: guard is the comparison the edge declares ("none" for
\* None); action, on_exit and on_enter are "none", "runs" or "raises" for the
\* callable the edge declares; start_workflow is "none" or "declared";
\* allowed_by is {"any"} for None
Transition(from_state, to_state, guard, action, on_exit, on_enter, start_workflow, allowed_by) ==
    [from_state |-> from_state, to_state |-> to_state, guard |-> guard,
     action |-> action, on_exit |-> on_exit, on_enter |-> on_enter,
     start_workflow |-> start_workflow, allowed_by |-> allowed_by]

\* demo_three_tiers.py 69-87
OrderLifecycle ==
    { Transition("PENDING", "FILLED", "quantity>0", "runs", "runs", "runs",
                 "declared", {"any"}),
      Transition("PENDING", "CANCELLED", "none", "none", "runs", "runs",
                 "none", {"risk_manager"}),
      Transition("FILLED", "SETTLED", "none", "runs", "none", "runs",
                 "none", {"any"}) }

\* demo_three_tiers.py 165-171: the action raises ValueError
FailLifecycle ==
    { Transition("NEW", "DONE", "none", "raises", "none", "none", "none",
                 {"any"}) }

\* demo_three_tiers.py 192-198: on_enter raises RuntimeError
FragileLifecycle ==
    { Transition("ALPHA", "BETA", "none", "none", "none", "raises", "none",
                 {"any"}) }

\* a lifecycle whose guard reads a field the object's data does not contain
UnknownFieldLifecycle ==
    { Transition("DRAFT", "SENT", "missing>0", "none", "none", "none", "none",
                 {"any"}) }

\* tests/test_store.py 73-93: the lifecycle of the test suite's Order
TestOrderLifecycle ==
    { Transition("PENDING", "PARTIAL", "none", "none", "runs", "none",
                 "none", {"any"}),
      Transition("PENDING", "FILLED", "quantity>0", "none", "runs", "runs",
                 "none", {"any"}),
      Transition("PENDING", "CANCELLED", "none", "none", "runs", "none",
                 "none", {"risk_manager"}),
      Transition("PARTIAL", "FILLED", "none", "none", "none", "runs",
                 "none", {"any"}),
      Transition("PARTIAL", "CANCELLED", "none", "none", "none", "none",
                 "none", {"any"}),
      Transition("FILLED", "SETTLED", "price>0", "runs", "none", "none",
                 "none", {"any"}) }

Machines == {"OrderLifecycle", "FailLifecycle", "FragileLifecycle",
             "UnknownFieldLifecycle"}

\* cls.transitions of state machine sm
transitions(sm) ==
    IF sm = "OrderLifecycle" THEN OrderLifecycle
    ELSE IF sm = "FailLifecycle" THEN FailLifecycle
    ELSE IF sm = "FragileLifecycle" THEN FragileLifecycle
    ELSE IF sm = "UnknownFieldLifecycle" THEN UnknownFieldLifecycle
    ELSE IF sm = "TestOrderLifecycle" THEN TestOrderLifecycle
    ELSE {}

\* cls.initial of state machine sm
initial_of(sm) ==
    IF sm = "OrderLifecycle" THEN initial
    ELSE IF sm = "FailLifecycle" THEN "NEW"
    ELSE IF sm = "FragileLifecycle" THEN "ALPHA"
    ELSE IF sm = "TestOrderLifecycle" THEN initial
    ELSE "DRAFT"

AllStates == UNION {{t.from_state, t.to_state} : t \in UNION {transitions(sm) : sm \in Machines}}

\* StateMachine.get_transition
get_transition(sm, from_state, to_state) ==
    {t \in transitions(sm) : t.from_state = from_state /\ t.to_state = to_state}

\* the fields of the context json.loads(obj.to_json()) that the model keeps
ContextFields == {"quantity>0", "price>0"}

\* Field.eval: ctx[self.name], a KeyError for a name the context lacks
Field_eval(t) == IF t.guard \in ContextFields THEN "value" ELSE "KeyError"

\* Field("quantity") > Const(0) evaluated on the object's data; the price of
\* every order is positive
GuardHolds(t, quantity) ==
    t.guard = "none" \/ t.guard = "price>0" \/ quantity > 0

\* StateMachine.validate_transition: edge, then guard, then allowed_by
validate_transition(sm, from_state, to_state, quantity, user) ==
    LET ts == get_transition(sm, from_state, to_state)
    IN  IF ts = {} THEN "InvalidTransition"
        ELSE LET t == CHOOSE x \in ts : TRUE
             IN  IF t.guard # "none" /\ Field_eval(t) = "KeyError"
                 THEN "KeyError"
                 ELSE IF ~GuardHolds(t, quantity) THEN "GuardFailure"
                 ELSE IF t.allowed_by # {"any"} /\ user \notin t.allowed_by
                      THEN "TransitionNotPermitted"
                      ELSE "ok"

\* client.py 303, 306: sm.fire_on_exit(...) and sm.fire_on_enter(...);
\* StateMachine and its subclasses define no attribute of either name
fire_on_exit == "AttributeError"

fire_on_enter == "AttributeError"

\* client.py 302-306, after the INSERT and the write-back: the side effects
\* that run, in order, and what the call raises ("ok" if it returns)
AfterCommit(t) ==
    IF fire_on_exit # "ok"
    THEN [effects |-> <<>>, raised |-> fire_on_exit]
    ELSE IF t.action = "raises"
    THEN [effects |-> <<"action">>, raised |-> "ActionError"]
    ELSE [effects |-> IF t.action = "runs" THEN <<"action">> ELSE <<>>,
          raised |-> fire_on_enter]

\* ---- transition -------------------------------------------------------------
\* a transition that writes the new state onto the object before it validates
transition_begin_writes_first(c, e, new_state) ==
    /\ pc[c] = "idle"
    /\ obj[c][e] # NoObj
    /\ LET sm == obj[c][e].sm
           v == validate_transition(sm, obj[c][e].state, new_state,
                                    obj[c][e].data, c)
           l == [NoCall EXCEPT !.op = "transition", !.e = e,
                               !.next_ver = _next_version(c, e),
                               !.state = new_state,
                               !.data = obj[c][e].data,
                               !.held = obj[c][e].version,
                               !.true_max = MaxVer(RowsOf(e, events))]
       IN  IF v # "ok"
           THEN Return(c, l, v, 0, 0)
           ELSE LET t == CHOOSE x \in get_transition(sm, obj[c][e].state,
                                                     new_state) : TRUE
                IN  Continue(c, [l EXCEPT !.from_state = obj[c][e].state,
                                          !.effects = AfterCommit(t).effects,
                                          !.err = AfterCommit(t).raised],
                             "tr_select")
    /\ obj' = [obj EXCEPT ![c][e].state = new_state]
    /\ UNCHANGED <<events, pending, clock, tx, nshare>>

\* client.py 237-253: validation against the object's cached state, then
\* _next_version; there is no comparison with the object's cached version
transition_begin(c, e, new_state) ==
    /\ pc[c] = "idle"
    /\ obj[c][e] # NoObj
    /\ LET sm == obj[c][e].sm
           v == validate_transition(sm, obj[c][e].state, new_state,
                                    obj[c][e].data, c)
           next_ver == _next_version(c, e)
           l == [NoCall EXCEPT !.op = "transition", !.e = e,
                               !.next_ver = next_ver, !.state = new_state,
                               !.data = obj[c][e].data,
                               !.held = obj[c][e].version,
                               !.true_max = MaxVer(RowsOf(e, events))]
       IN  IF v # "ok"
           THEN Return(c, l, v, 0, 0)
           ELSE LET t == CHOOSE x \in get_transition(sm, obj[c][e].state,
                                                     new_state) : TRUE
                IN  Continue(c, [l EXCEPT !.from_state = obj[c][e].state,
                                          !.effects = AfterCommit(t).effects,
                                          !.err = AfterCommit(t).raised],
                             "tr_select")
    /\ UNCHANGED <<events, pending, clock, obj, tx, nshare>>

\* client.py 269-281: copy owner, readers, writers; no owner/writer check
transition_select(c) ==
    /\ pc[c] = "tr_select"
    /\ LET S == RowsOf(loc[c].e, View(c))
       IN  Continue(c, [loc[c] EXCEPT
                     !.owner = IF S # {} THEN LatestRow(S).owner ELSE c,
                     !.readers = IF S # {} THEN LatestRow(S).readers ELSE {},
                     !.writers = IF S # {} THEN LatestRow(S).writers ELSE {},
                     !.role = Role(c, loc[c].e)],
                    "tr_insert")
    /\ UNCHANGED <<events, pending, clock, obj, tx, nshare>>

\* client.py 283-306: the INSERT, the write-back, then sm.fire_on_exit, a
\* method StateMachine does not define
transition_insert(c) ==
    /\ pc[c] = "tr_insert"
    /\ InsertStep(c, CallRow(c, loc[c].readers, loc[c].writers,
                             loc[c].state, "STATE_CHANGE"), loc[c].err)
    /\ UNCHANGED <<tx, nshare>>

\* StoreClient.write of an object whose _state_machine is lifecycle sm
\* (client.py 88-90: a new object starts in sm.initial)
write_as(c, d, sm) ==
    /\ pc[c] = "idle"
    /\ Entities \ UsedIds # {}
    /\ Room
    /\ WriteBodyAs(c, d, sm, initial_of(sm))
    /\ UNCHANGED <<pc, loc, tx, nshare>>

\* ---- sharing (store/permissions.py) -------------------------------------------
\* one UPDATE over the rows of the entity that satisfy the WHERE clause and
\* that the caller may see and update; `field` is the column, `add` tells
\* array_append from array_remove. WITH CHECK is applied to every new row
\* and any failure undoes the statement.
Shared(r, field, add, u) ==
    IF field = "readers"
    THEN [r EXCEPT !.readers = IF add THEN @ \cup {u} ELSE @ \ {u}]
    ELSE [r EXCEPT !.writers = IF add THEN @ \cup {u} ELSE @ \ {u}]

ShareTarget(c, e, field, add, u) ==
    {r \in RowsOf(e, events) :
        /\ admin_all(c) \/ (user_select(c, r) /\ user_update(c, r))
        /\ add => (IF field = "readers" THEN u \notin r.readers
                   ELSE u \notin r.writers)}

ShareUpdate(c, e, field, add, u) ==
    LET target == ShareTarget(c, e, field, add, u)
        changed == {Shared(r, field, add, u) : r \in target}
    IN  /\ pc[c] = "idle"
        /\ nshare < MaxShares
        /\ events' = IF \A r \in changed : admin_all(c) \/ user_update(c, r)
                     THEN (events \ target) \cup changed
                     ELSE events
        /\ nshare' = IF events' # events THEN nshare + 1 ELSE nshare
        /\ ret' = [NoRet EXCEPT
                     !.c = c, !.op = "share", !.e = e,
                     !.outcome =
                        IF \E r \in changed : ~(admin_all(c) \/ user_update(c, r))
                        THEN "InsufficientPrivilege"
                        ELSE IF target = {} THEN "False" ELSE "True"]
        /\ UNCHANGED <<pending, clock, pc, loc, obj, tx>>

share_read(c, e, u) == ShareUpdate(c, e, "readers", TRUE, u)

share_write(c, e, u) == ShareUpdate(c, e, "writers", TRUE, u)

unshare_read(c, e, u) == ShareUpdate(c, e, "readers", FALSE, u)

unshare_write(c, e, u) == ShareUpdate(c, e, "writers", FALSE, u)

\* ---- write_many / update_many ---------------------------------------------
\* autocommit is switched off: the statements that follow share one
\* transaction, which begins with the first of them
BulkBegin(c, mode, items) ==
    /\ pc[c] = "idle"
    /\ clock < MaxClock
    /\ tx' = [tx EXCEPT ![c] = [mode |-> mode, rest |-> items, start |-> 0,
                                 before |-> obj[c]]]
    /\ pc' = [pc EXCEPT ![c] = "tx"]
    /\ ret' = NoRet
    /\ UNCHANGED <<events, pending, clock, loc, obj, nshare>>

\* client.py 313-314: objects is a list of new objects, named by their data
write_many_begin(c, ds) == BulkBegin(c, "write_many", ds)

\* the objects a test hands to write_many: an Order, or an Order whose
\* _state_machine was overwritten with a string (tests/test_store.py 834)
NewObjects == [data : Positive, sm : {"OrderLifecycle", "not_a_state_machine"}]

\* new Orders
NewOrders == {o \in NewObjects : o.sm = "OrderLifecycle"}

\* client.py 317-319: self.write(obj) for the next object; reading
\* obj._state_machine.initial of a corrupted object raises before the INSERT
write_many_next(c) ==
    /\ pc[c] = "tx"
    /\ tx[c].mode = "write_many"
    /\ tx[c].rest # <<>>
    /\ IF Head(tx[c].rest).sm = "OrderLifecycle"
       THEN /\ Entities \ UsedIds # {}
            /\ Room
            /\ LET e == FreshId
                   r == NewRow(c, e, 1, c, {}, {}, Head(tx[c].rest).data,
                               initial, "CREATED")
               IN  /\ InsertOutcome(c, r) = "ok"
                   /\ pending' = [pending EXCEPT ![c] = @ \cup {r}]
                   /\ obj' = [obj EXCEPT ![c][e] =
                                [version |-> 1, state |-> initial,
                                 data |-> r.data, sm |-> "OrderLifecycle"]]
                   /\ ret' = [NoRet EXCEPT !.c = c, !.op = "write", !.e = e,
                                           !.outcome = "ok", !.inserted = 1]
            /\ clock' = Tick(c)
            /\ tx' = [tx EXCEPT ![c] = Started(c)]
            /\ UNCHANGED <<events, pc, loc, nshare>>
       ELSE /\ ret' = [NoRet EXCEPT !.c = c, !.op = "write",
                                    !.outcome = "AttributeError"]
            /\ loc' = [loc EXCEPT ![c] = [NoCall EXCEPT !.err = "AttributeError"]]
            /\ pc' = [pc EXCEPT ![c] = "tx_abort"]
            /\ UNCHANGED <<events, pending, clock, obj, tx, nshare>>

\* client.py 333-334: objects is a list of objects the client holds
update_many_begin(c, es) ==
    /\ \A i \in 1..Len(es) : obj[c][es[i]] # NoObj
    /\ BulkBegin(c, "update_many", es)

\* client.py 336-337: self.update(obj) for the next object
update_many_next(c) ==
    /\ pc[c] = "tx"
    /\ tx[c].mode = "update_many"
    /\ tx[c].rest # <<>>
    /\ LET e == Head(tx[c].rest)
       IN  UpdateStart(c, e, obj[c][e].data, "update")
    /\ tx' = [tx EXCEPT ![c] = Started(c)]
    /\ UNCHANGED nshare

\* client.py 320-321, 338: conn.commit() after the last object
commit(c) ==
    /\ pc[c] = "tx"
    /\ tx[c].rest = <<>>
    /\ events' = events \cup pending[c]
    /\ pending' = [pending EXCEPT ![c] = {}]
    /\ ret' = [NoRet EXCEPT !.c = c, !.op = tx[c].mode, !.outcome = "ok"]
    /\ tx' = [tx EXCEPT ![c] = NoTx]
    /\ pc' = [pc EXCEPT ![c] = "idle"]
    /\ UNCHANGED <<clock, loc, obj, nshare>>

\* an except branch that commits what the call has written so far
rollback_keeps(c) ==
    /\ pc[c] = "tx_abort"
    /\ events' = events \cup pending[c]
    /\ pending' = [pending EXCEPT ![c] = {}]
    /\ ret' = [NoRet EXCEPT !.c = c, !.op = tx[c].mode, !.outcome = loc[c].err]
    /\ tx' = [tx EXCEPT ![c] = NoTx]
    /\ loc' = [loc EXCEPT ![c] = NoCall]
    /\ pc' = [pc EXCEPT ![c] = "idle"]
    /\ UNCHANGED <<clock, obj, nshare>>

\* client.py 322-324, 339-341: conn.rollback(), then the exception is re-raised
rollback(c) ==
    /\ pc[c] = "tx_abort"
    /\ pending' = [pending EXCEPT ![c] = {}]
    /\ ret' = [NoRet EXCEPT !.c = c, !.op = tx[c].mode, !.outcome = loc[c].err]
    /\ tx' = [tx EXCEPT ![c] = NoTx]
    /\ loc' = [loc EXCEPT ![c] = NoCall]
    /\ pc' = [pc EXCEPT ![c] = "idle"]
    /\ UNCHANGED <<events, clock, obj, nshare>>

\* ---- read -------------------------------------------------------------------
\* StoreClient.read: the latest visible version, None for a tombstone
ReadRow(c, e) ==
    LET S == RowsOf(e, View(c))
    IN  IF S = {} \/ LatestRow(S).event_type = "DELETED" THEN {}
        ELSE {LatestRow(S)}

\* StoreClient.history: every visible version, tombstones included
history(c, e) == RowsOf(e, View(c))

\* StoreClient.query without filters, limit above the number of entities:
\* DISTINCT ON (entity_id) ... ORDER BY entity_id, version DESC, tombstones
\* filtered out afterwards
query(c) ==
    {r \in View(c) : /\ r.version = MaxVer(RowsOf(r.eid, View(c)))
                      /\ r.event_type # "DELETED"}

\* StoreClient.query with filters {"quantity": q}: `data @> filter` is part of
\* the WHERE clause of the inner SELECT DISTINCT ON (entity_id) ... ORDER BY
\* entity_id, version DESC; the outer SELECT drops the tombstones
query_filtered(c, q) ==
    LET matching == {r \in View(c) : r.data = q}
    IN  {r \in matching : /\ r.version = MaxVer(RowsOf(r.eid, matching))
                          /\ r.event_type # "DELETED"}

\* an as_of whose condition is tx_time < T
as_of_before(c, e, T) ==
    MaxVer({r \in RowsOf(e, View(c)) : r.tx_time < T})

\* StoreClient.as_of(cls, entity_id, tx_time=T): WHERE entity_id = e AND
\* tx_time <= T ORDER BY version DESC LIMIT 1; the version of the object it
\* returns, 0 for None
as_of(c, e, T) ==
    MaxVer({r \in RowsOf(e, View(c)) : r.tx_time <= T})

\* StoreClient.count
count(c) == Cardinality({r.eid : r \in query(c)})

\* StoreClient.read of an object whose class registers lifecycle sm
read_as(c, e, sm) ==
    /\ pc[c] = "idle"
    /\ obj' = [obj EXCEPT ![c][e] =
                 IF ReadRow(c, e) = {} THEN NoObj
                 ELSE LET r == LatestRow(RowsOf(e, View(c)))
                      IN [version |-> r.version, state |-> r.state,
                          data |-> r.data, sm |-> sm]]
    /\ ret' = NoRet
    /\ UNCHANGED <<events, pending, clock, pc, loc, tx, nshare>>

\* StoreClient.read of an Order
read(c, e) == read_as(c, e, "OrderLifecycle")

\* ---- raw SQL on the client's connection (tests/test_store.py 1095-1106) ------
\* INSERT INTO object_events with the columns the caller chooses to supply
raw_insert(c, e, ver, owner, by, writers) ==
    LET r == [eid |-> e, version |-> ver, owner |-> owner, updated_by |-> by,
              readers |-> {}, writers |-> writers, data |-> 1,
              state |-> initial, event_type |-> "CREATED",
              tx_time |-> clock + 1]
        out == InsertOutcome(c, r)
    IN  /\ pc[c] = "idle"
        /\ out = "ok" => Room
        /\ IF out = "ok"
           THEN events' = events \cup {r} /\ clock' = clock + 1
           ELSE UNCHANGED <<events, clock>>
        /\ ret' = [NoRet EXCEPT !.c = c, !.op = "raw_insert", !.e = e,
                                !.outcome = out,
                                !.inserted = IF out = "ok" THEN ver ELSE 0]
        /\ UNCHANGED <<pending, pc, loc, obj, tx, nshare>>

\* UPDATE object_events SET owner | updated_by = u WHERE entity_id = e: the
\* table grants UPDATE on every column, and policy user_update decides by
\* owner and writers alone
Rewritten(r, col, u) ==
    IF col = "owner" THEN [r EXCEPT !.owner = u]
    ELSE [r EXCEPT !.updated_by = u]

raw_update(c, e, col, u) ==
    LET target == {r \in RowsOf(e, events) :
                      admin_all(c) \/ (user_select(c, r) /\ user_update(c, r))}
        changed == {Rewritten(r, col, u) : r \in target}
        out == IF \A r \in changed : admin_all(c) \/ user_update(c, r)
               THEN "ok" ELSE "InsufficientPrivilege"
    IN  /\ pc[c] = "idle"
        /\ events' = IF out = "ok" THEN (events \ target) \cup changed
                     ELSE events
        /\ ret' = [NoRet EXCEPT !.c = c, !.op = "raw_update", !.e = e,
                                !.outcome = out]
        /\ UNCHANGED <<pending, clock, pc, loc, obj, tx, nshare>>

\* ---- subscriptions (store/subscriptions.py) ----------------------------------
\* the user the listener connects as, and its subscriber_id is set
subscriber == "alice"

\* run: "new" before the first start(), "up" between start() and the return
\* of stop(), otherwise "down"; starts counts start(); thread is the position
\* of the daemon thread in _listen_loop ("none" when there is none),
\* stop_event is _stop_event and inflight the notification the thread has
\* popped; last_tx_time is _last_tx_time and checkpoint the row of
\* subscription_checkpoints (0 for None / no row); notifies is conn.notifies;
\* replayed are the events the last _catch_up emitted, in order, and live
\* those _handle_notify emitted since; before are the events emitted in
\* earlier runs, late those emitted after stop() had returned; missed are the
\* events persisted since the last stop(); crash_at is the tx_time of the
\* last event a start() emitted before the process died in _catch_up; error
\* is the exception that ended the thread; run is "starting" between the
\* catch-up of a start() and its LISTEN, and racing are the events persisted
\* in that interval
NoRow ==
    [eid |-> 0, version |-> 0, owner |-> "none", updated_by |-> "none",
     readers |-> {}, writers |-> {}, data |-> 0, state |-> "none",
     event_type |-> "none", tx_time |-> 0]

\* a notification: payload is "event" for the JSON the trigger builds from
\* row, otherwise the way a payload sent with NOTIFY is malformed
Note(payload, row) == [payload |-> payload, row |-> row]

NoNote == Note("none", NoRow)

NoListener ==
    [run |-> "new", starts |-> 0, thread |-> "none", stop_event |-> FALSE,
     inflight |-> NoNote, last_tx_time |-> 0, checkpoint |-> 0,
     notifies |-> <<>>, replayed |-> <<>>, live |-> {}, before |-> {},
     late |-> {}, missed |-> {}, crash_at |-> 0, error |-> "none",
     racing |-> {}]

\* ORDER BY tx_time ASC (rows of equal tx_time by entity and version)
Earlier(r, s) ==
    \/ r.tx_time < s.tx_time
    \/ r.tx_time = s.tx_time /\ r.eid < s.eid
    \/ r.tx_time = s.tx_time /\ r.eid = s.eid /\ r.version <= s.version

RECURSIVE OrderByTxTime(_)
OrderByTxTime(S) ==
    IF S = {} THEN <<>>
    ELSE LET r == CHOOSE x \in S : \A y \in S : Earlier(x, y)
         IN  <<r>> \o OrderByTxTime(S \ {r})

\* the rows a step inserted into object_events and committed
Inserted == {r \in events' : \A s \in events : ~SameKey(r, s)}

\* the notifications of rows, in order
Notes(rows) == [i \in DOMAIN rows |-> Note("event", rows[i])]

\* trigger object_event_notify: pg_notify for every inserted row, delivered
\* to the sessions that LISTEN when the inserting transaction commits
Notify ==
    /\ lsn' = IF lsn.run = "up"
              THEN [lsn EXCEPT !.notifies = @ \o Notes(OrderByTxTime(Inserted))]
              ELSE IF lsn.run = "down"
              THEN [lsn EXCEPT !.missed = @ \cup Inserted]
              ELSE IF lsn.run = "starting"
              THEN [lsn EXCEPT !.racing = @ \cup Inserted]
              ELSE lsn
    /\ UNCHANGED <<bus, rg>>

\* what is outside the listener and the store
ListenerStep ==
    /\ ret' = NoRet
    /\ UNCHANGED <<events, pending, pc, loc, obj, tx, nshare, bus, rg>>

\* payloads json.loads or a key lookup rejects (JSONDecodeError, KeyError),
\* and payloads that fail elsewhere in _handle_notify: JSON that is not an
\* object (TypeError), a tx_time that is no ISO timestamp (ValueError)
Skipped == {"not_json", "missing_key"}

Fatal == {"not_object", "bad_tx_time"}

\* NOTIFY object_events, '<payload>' issued by a database user
raw_notify(c, payload) ==
    /\ pc[c] = "idle"
    /\ lsn.run = "up"
    /\ Len(lsn.notifies) < MaxQueue
    /\ lsn' = [lsn EXCEPT !.notifies = Append(@, Note(payload, NoRow))]
    /\ clock' = clock
    /\ ListenerStep

\* SubscriptionListener._catch_up after _load_checkpoint: the rows the SELECT
\* returns, in its order
CatchUpRows(last) ==
    OrderByTxTime({r \in events : /\ admin_all(subscriber)
                                     \/ user_select(subscriber, r)
                                  /\ r.tx_time > last})

Range(f) == {f[i] : i \in DOMAIN f}

\* SubscriptionListener.start: _load_checkpoint, _catch_up (without a
\* checkpoint it takes datetime.now(), otherwise each replayed event moves
\* _last_tx_time), _save_checkpoint after the loop, LISTEN, thread start
start ==
    /\ lsn.run \in {"new", "down"}
    /\ lsn.thread = "none"
    /\ lsn.starts < MaxStarts
    /\ LET last == lsn.checkpoint
           rows == IF last = 0 THEN <<>> ELSE CatchUpRows(last)
           now == IF last = 0 THEN clock + 1
                  ELSE IF rows = <<>> THEN last
                  ELSE rows[Len(rows)].tx_time
       IN  /\ last = 0 => clock < MaxClock
           /\ clock' = IF last = 0 THEN clock + 1 ELSE clock
           /\ lsn' = [lsn EXCEPT !.run = "up", !.starts = @ + 1,
                                 !.thread = "waiting", !.stop_event = FALSE,
                                 !.last_tx_time = now, !.checkpoint = now,
                                 !.notifies = <<>>, !.replayed = rows,
                                 !.live = {}, !.crash_at = 0,
                                 !.error = "none"]
    /\ ListenerStep

\* SubscriptionListener.start, lines 126-134: connect, _load_checkpoint and
\* _catch_up with its _save_checkpoint; the session does not LISTEN yet
start_catch_up ==
    /\ lsn.run \in {"new", "down"}
    /\ lsn.thread = "none"
    /\ lsn.starts < MaxStarts
    /\ LET last == lsn.checkpoint
           rows == IF last = 0 THEN <<>> ELSE CatchUpRows(last)
           now == IF last = 0 THEN clock + 1
                  ELSE IF rows = <<>> THEN last
                  ELSE rows[Len(rows)].tx_time
       IN  /\ last = 0 => clock < MaxClock
           /\ clock' = IF last = 0 THEN clock + 1 ELSE clock
           /\ lsn' = [lsn EXCEPT !.run = "starting", !.starts = @ + 1,
                                 !.stop_event = FALSE,
                                 !.last_tx_time = now, !.checkpoint = now,
                                 !.notifies = <<>>, !.replayed = rows,
                                 !.live = {}, !.crash_at = 0,
                                 !.error = "none", !.racing = {}]
    /\ ListenerStep

\* SubscriptionListener.start, lines 136-141: LISTEN object_events, then the
\* thread is started
start_listen ==
    /\ lsn.run = "starting"
    /\ lsn' = [lsn EXCEPT !.run = "up", !.thread = "waiting"]
    /\ clock' = clock
    /\ ListenerStep

\* start() in a process that dies inside the loop of _catch_up after it has
\* emitted k events: _save_checkpoint (line 215) was not reached
start_crash(k) ==
    /\ lsn.run = "down"
    /\ lsn.thread = "none"
    /\ lsn.starts < MaxStarts
    /\ lsn.checkpoint # 0
    /\ LET rows == CatchUpRows(lsn.checkpoint)
       IN  /\ k \in 1..Len(rows)
           /\ lsn' = [lsn EXCEPT !.starts = @ + 1,
                                 !.before = @ \cup Range(SubSeq(rows, 1, k)),
                                 !.last_tx_time = 0,
                                 !.crash_at = rows[k].tx_time]
    /\ clock' = clock
    /\ ListenerStep

\* _listen_loop, one iteration of the outer loop: the stop flag is clear,
\* select and poll find a notification, the inner loop pops it
poll ==
    /\ lsn.thread = "waiting"
    /\ ~lsn.stop_event
    /\ lsn.run = "up"
    /\ lsn.notifies # <<>>
    /\ lsn' = [lsn EXCEPT !.thread = "handling",
                          !.inflight = Head(lsn.notifies),
                          !.notifies = Tail(@)]
    /\ clock' = clock
    /\ ListenerStep

\* _listen_loop: the outer loop finds the stop flag set and the thread ends
loop_exit ==
    /\ lsn.thread = "waiting"
    /\ lsn.stop_event
    /\ lsn' = [lsn EXCEPT !.thread = "none"]
    /\ clock' = clock
    /\ ListenerStep

\* the inner loop `while self._conn.notifies` after a notification: without
\* a connection (stop() has set _conn to None) the thread ends with
\* AttributeError, otherwise it pops the next notification or goes back to
\* the outer loop
AfterNotify(l) ==
    IF lsn.run # "up"
    THEN [l EXCEPT !.thread = "none", !.inflight = NoNote,
                   !.error = "AttributeError"]
    ELSE IF lsn.notifies # <<>>
    THEN [l EXCEPT !.thread = "handling", !.inflight = Head(lsn.notifies),
                   !.notifies = Tail(lsn.notifies)]
    ELSE [l EXCEPT !.thread = "waiting", !.inflight = NoNote]

\* SubscriptionListener._handle_notify for the popped notification: decode,
\* emit, _last_tx_time = event.tx_time, _save_checkpoint (which returns at
\* once when the connection is gone); then the inner loop goes on
handle_notify ==
    /\ lsn.thread = "handling"
    /\ LET event == lsn.inflight.row
           kind == lsn.inflight.payload
       IN  lsn' =
             IF kind \in Skipped THEN AfterNotify(lsn)
             ELSE IF kind \in Fatal
             THEN [lsn EXCEPT !.thread = "none", !.inflight = NoNote,
                              !.error = IF kind = "not_object"
                                        THEN "TypeError" ELSE "ValueError"]
             ELSE IF lsn.run = "up"
             THEN AfterNotify([lsn EXCEPT !.live = @ \cup {event},
                                          !.last_tx_time = event.tx_time,
                                          !.checkpoint = event.tx_time])
             ELSE AfterNotify([lsn EXCEPT !.late = @ \cup {event},
                                          !.before = @ \cup {event},
                                          !.last_tx_time = event.tx_time])
    /\ clock' = clock
    /\ ListenerStep

\* SubscriptionListener.stop, line 145: _stop_event.set()
stop ==
    /\ lsn.run = "up"
    /\ ~lsn.stop_event
    /\ lsn' = [lsn EXCEPT !.stop_event = TRUE]
    /\ clock' = clock
    /\ ListenerStep

\* SubscriptionListener.stop, lines 146-151: join(timeout=2) is over, because
\* the thread has ended or because after two seconds it is still inside
\* _handle_notify with an event (emit calls the subscribers' callbacks, which
\* take as long as they take); the connection is closed and _conn set to
\* None, so notifications not popped yet are gone
stop_return ==
    /\ lsn.run = "up"
    /\ lsn.stop_event
    /\ \/ lsn.thread = "none"
       \/ lsn.thread = "handling" /\ lsn.inflight.payload = "event"
    /\ lsn' = [lsn EXCEPT !.run = "down", !.notifies = <<>>,
                          !.before = @ \cup lsn.live \cup Range(lsn.replayed),
                          !.replayed = <<>>, !.live = {}, !.missed = {}]
    /\ clock' = clock
    /\ ListenerStep

\* ---- EventBus (store/subscriptions.py 34-94) ---------------------------------
\* subscriber callbacks; the ones in Raisers raise an Exception when called
Callbacks == {"logger", "raiser"}

Raisers == {"raiser"}

Types == {"Order", "Trade"}

\* ChangeEvent, the fields emit reads
ChangeEvents == [type_name : Types, entity_id : Entities]

NoChangeEvent == [type_name |-> "none", entity_id |-> 0]

\* EventBus.__init__, and no emit in progress: listeners is emit's local
\* snapshot, pos its place in the for loop, invoked the callbacks it has
\* called, result how the last emit ended
NoBus == [all_listeners |-> <<>>, type_listeners |-> [t \in Types |-> <<>>], entity_listeners |-> [e \in Entities |-> <<>>], pc |-> "idle", event |-> NoChangeEvent, listeners |-> <<>>, pos |-> 0, invoked |-> <<>>, result |-> "none"]

\* what is outside the bus
BusStep == UNCHANGED <<events, pending, clock, pc, loc, obj, tx, ret, nshare, lsn, rg>>

Subscriptions ==
    Len(bus.all_listeners)
    + Len(bus.type_listeners["Order"]) + Len(bus.type_listeners["Trade"])
    + Len(bus.entity_listeners[1]) + Len(bus.entity_listeners[2])

\* list.remove(x): drops the first occurrence
RECURSIVE list_remove(_, _)
list_remove(l, x) ==
    IF l = <<>> THEN <<>>
    ELSE IF Head(l) = x THEN Tail(l)
    ELSE <<Head(l)>> \o list_remove(Tail(l), x)

on(t, cb) ==
    /\ Subscriptions < MaxSubs
    /\ bus' = [bus EXCEPT !.type_listeners[t] = Append(@, cb)]
    /\ BusStep

on_entity(e, cb) ==
    /\ Subscriptions < MaxSubs
    /\ bus' = [bus EXCEPT !.entity_listeners[e] = Append(@, cb)]
    /\ BusStep

on_all(cb) ==
    /\ Subscriptions < MaxSubs
    /\ bus' = [bus EXCEPT !.all_listeners = Append(@, cb)]
    /\ BusStep

off(t, cb) ==
    /\ bus' = [bus EXCEPT !.type_listeners[t] = list_remove(@, cb)]
    /\ BusStep

off_entity(e, cb) ==
    /\ bus' = [bus EXCEPT !.entity_listeners[e] = list_remove(@, cb)]
    /\ BusStep

off_all(cb) ==
    /\ bus' = [bus EXCEPT !.all_listeners = list_remove(@, cb)]
    /\ BusStep

\* the list emit builds under the lock
Matching(event) ==
    bus.all_listeners \o bus.type_listeners[event.type_name]
                      \o bus.entity_listeners[event.entity_id]

\* cb(event): what the callback raises
call(cb) == IF cb \in Raisers THEN "Exception" ELSE "none"

\* a for loop without the try: what the callback raises leaves the loop
no_except(exc) == exc

\* try: cb(event) / except Exception: pass
except_pass(exc) == IF exc = "Exception" THEN "none" ELSE exc

\* EventBus.emit, the part under the lock
emit_begin(event) ==
    /\ bus.pc = "idle"
    /\ bus' = [bus EXCEPT !.pc = "emitting", !.event = event,
                          !.listeners = Matching(event), !.pos = 1,
                          !.invoked = <<>>, !.result = "none"]
    /\ BusStep

\* one round of `for cb in listeners`
emit_call ==
    /\ bus.pc = "emitting"
    /\ bus.pos <= Len(bus.listeners)
    /\ LET cb == bus.listeners[bus.pos]
           exc == except_pass(call(cb))
       IN  bus' = IF exc = "none"
                  THEN [bus EXCEPT !.invoked = Append(@, cb), !.pos = @ + 1]
                  ELSE [bus EXCEPT !.invoked = Append(@, cb), !.pc = "idle",
                                   !.result = "raised"]
    /\ BusStep

\* the loop is exhausted: emit returns None
emit_return ==
    /\ bus.pc = "emitting"
    /\ bus.pos > Len(bus.listeners)
    /\ bus' = [bus EXCEPT !.pc = "idle", !.result = "returned"]
    /\ BusStep

\* ---- ReactiveGraph (reactive/graph.py) ---------------------------------------
\* node ids track hands out, in the order it hands them out
Handles == 1..MaxNodes

\* the Rectangle fields a computed reads, their values, and a field name no
\* Rectangle has
Fields == {"width", "height"}

FieldValues == {1, 2}

Unknown == "depth"

\* the callbacks handed to effect, numbered in the order of the calls
Effects == 1..MaxEffects

\* _TrackedNode: the two field Signals, whether computeds holds "area", and
\* slot, the Effect effects["area"] refers to (0: none)
NoNode == [st |-> "none", width |-> 0, height |-> 0, computed |-> FALSE, slot |-> 0]

\* an Effect object: the node whose computed its closure reads, and whether
\* it still runs (neither disposed nor collected)
NoEffect == [node |-> 0, alive |-> FALSE]

\* _GroupNode of a group_computed: the member list Signal and the Computed's
\* cache with the cells it read when it last ran
NoGroup == [st |-> "none", ids |-> <<>>, valid |-> FALSE, value |-> 0, deps |-> {}]

\* the fields a node has once every known field of a batch_update dict is set
NoTarget == [width |-> 0, height |-> 0]

\* the call just made: its node, what its dict asks for, what it raised or
\* returned
NoOp == [name |-> "none", node |-> 0, target |-> NoTarget, err |-> "none", value |-> 0]

\* a field value that is None
Null == 0

\* the Computed of a node as get reads it: not computed yet, holding the
\* library's default
NoCell == [dirty |-> TRUE, value |-> Null]

\* ReactiveGraph.__init__; pending are the Effects notified and not yet run,
\* fired what the callbacks of the call just made were called with, removed
\* the callbacks whose computed a remove_effect or untrack has been called on
NoGraph == [nodes |-> [h \in Handles |-> NoNode], effs |-> [i \in Effects |-> NoEffect], pending |-> {}, fired |-> <<>>, removed |-> {}, group |-> NoGroup, op |-> NoOp, cells |-> [h \in Handles |-> NoCell]]

\* what is outside the graph
GraphStep == UNCHANGED <<events, pending, clock, pc, loc, obj, tx, ret, nshare, lsn, bus>>

\* Field("width") * Field("height") evaluated on the node's signals
area(n) == n.width * n.height

Tracked(g, h) == g.nodes[h].st = "tracked"

\* a call begins: nothing fired yet
Call(g, name, h) ==
    [g EXCEPT !.fired = <<>>,
              !.op = [name |-> name, node |-> h, target |-> NoTarget,
                      err |-> "none", value |-> 0]]

Raise(g, name, h, err) ==
    [Call(g, name, h) EXCEPT !.op.err = err]

\* the Effects whose closure reads the computed of node h and that still run
Watching(g, h) == {i \in Effects : g.effs[i].alive /\ g.effs[i].node = h}

\* Signal.set: an equal value changes nothing; a new one marks the node's
\* computed and what read it dirty and notifies the Effects
Signal_set(g, h, field, value) ==
    IF g.nodes[h][field] = value THEN g
    ELSE [g EXCEPT !.nodes[h][field] = value,
                   !.cells[h].dirty = TRUE,
                   !.pending = @ \cup Watching(g, h),
                   !.group.valid = @ /\ h \notin g.group.deps]

RECURSIVE Ascending(_)
Ascending(S) ==
    IF S = {} THEN <<>>
    ELSE LET m == CHOOSE x \in S : \A y \in S : x <= y
         IN  <<m>> \o Ascending(S \ {m})

\* effect_fn of each notified Effect: reads the computed, calls the callback
Run(g, S) ==
    LET order == Ascending(S)
    IN  [k \in DOMAIN order |->
            [cb |-> order[k], value |-> area(g.nodes[g.effs[order[k]].node])]]

\* _tick: the event loop runs the notified Effects
tick(g) == [g EXCEPT !.pending = {}, !.fired = @ \o Run(g, g.pending)]

\* the handle uuid4 yields next
NewHandle == CHOOSE h \in Handles : /\ rg.nodes[h].st = "none"
                                    /\ \A k \in Handles : k < h => rg.nodes[k].st # "none"

track(width, height) ==
    /\ \E h \in Handles : rg.nodes[h].st = "none"
    /\ rg' = [Call(rg, "track", NewHandle) EXCEPT
                !.nodes[NewHandle] = [NoNode EXCEPT !.st = "tracked", !.width = width, !.height = height]]
    /\ GraphStep

computed(h) ==
    /\ rg' = IF ~Tracked(rg, h) THEN Raise(rg, "computed", h, "KeyError")
             ELSE [Call(rg, "computed", h) EXCEPT !.nodes[h].computed = TRUE,
                                                   !.cells[h] = NoCell]
    /\ GraphStep

\* the Effect an overwritten effects[name] referred to is no longer referenced
\* by the graph: it is collected (kept = FALSE) or keeps running
effect(h, kept) ==
    /\ \E i \in Effects : rg.effs[i].node = 0
    /\ LET i   == CHOOSE j \in Effects : rg.effs[j].node = 0 /\ \A k \in Effects : k < j => rg.effs[k].node # 0
           old == rg.nodes[h].slot
           g0  == Call(rg, "effect", h)
           g1  == IF old = 0 \/ kept THEN g0
                  ELSE [g0 EXCEPT !.effs[old].alive = FALSE, !.pending = @ \ {old}]
           g2  == [g1 EXCEPT !.effs[i] = [node |-> h, alive |-> TRUE],
                             !.nodes[h].slot = i, !.pending = @ \cup {i}]
       IN  /\ kept => Tracked(rg, h) /\ old # 0
           /\ rg' = IF ~Tracked(rg, h) \/ ~rg.nodes[h].computed
                    THEN Raise(rg, "effect", h, "KeyError")
                    ELSE tick(g2)
    /\ GraphStep

update(h, field, value) ==
    /\ rg' = IF ~Tracked(rg, h) \/ field \notin Fields
             THEN Raise(rg, "update", h, "KeyError")
             ELSE tick(Signal_set(Call(rg, "update", h), h, field, value))
    /\ GraphStep

\* the for loop of batch_update over updates.items(), up to the first field
\* the node has no Signal for
RECURSIVE SetEach(_, _, _)
SetEach(g, h, updates) ==
    IF updates = <<>> \/ Head(updates).field \notin Fields THEN g
    ELSE SetEach(Signal_set(g, h, Head(updates).field, Head(updates).value), h, Tail(updates))

\* the node's fields with every known field of the dict set
RECURSIVE Target(_, _)
Target(n, updates) ==
    IF updates = <<>> THEN [width |-> n.width, height |-> n.height]
    ELSE IF Head(updates).field \notin Fields THEN Target(n, Tail(updates))
    ELSE Target([n EXCEPT ![Head(updates).field] = Head(updates).value], Tail(updates))

\* batch() defers the notifications to the end of the with block; when the
\* loop raises, _tick is not reached: the notified Effects have run when the
\* block was left (drained) or wait for the next _tick
batch_update(h, updates, drained) ==
    /\ LET g0 == [Call(rg, "batch_update", h) EXCEPT !.op.target = Target(rg.nodes[h], updates)]
           g1 == SetEach(g0, h, updates)
           ok == \A k \in DOMAIN updates : updates[k].field \in Fields
       IN  /\ ~drained => Tracked(rg, h) /\ ~ok /\ g1.pending # {}
           /\ rg' = IF ~Tracked(rg, h) THEN Raise(rg, "batch_update", h, "KeyError")
                    ELSE IF ok THEN tick(g1)
                    ELSE IF drained THEN [tick(g1) EXCEPT !.op.err = "KeyError"]
                    ELSE [g1 EXCEPT !.op.err = "KeyError"]
    /\ GraphStep

\* the callbacks registered on the computed of node h so far
Registered(g, h) == {i \in Effects : g.effs[i].node = h}

remove_effect(h) ==
    /\ rg' = IF ~Tracked(rg, h) THEN Raise(rg, "remove_effect", h, "KeyError")
             ELSE LET s == rg.nodes[h].slot
                      g0 == [Call(rg, "remove_effect", h) EXCEPT !.removed = @ \cup Registered(rg, h)]
                  IN  IF s = 0 THEN g0
                      ELSE [g0 EXCEPT !.nodes[h].slot = 0, !.effs[s].alive = FALSE,
                                      !.pending = @ \ {s}]
    /\ GraphStep

untrack(h) ==
    /\ rg.nodes[h].st # "none"
    /\ rg' = IF ~Tracked(rg, h) THEN Call(rg, "untrack", h)
             ELSE LET s == rg.nodes[h].slot
                      g0 == [Call(rg, "untrack", h) EXCEPT
                                !.removed = @ \cup Registered(rg, h),
                                !.nodes[h] = [NoNode EXCEPT !.st = "untracked"]]
                  IN  IF s = 0 THEN g0
                      ELSE [g0 EXCEPT !.effs[s].alive = FALSE, !.pending = @ \ {s}]
    /\ GraphStep

\* the member lists a caller can pass: handles track has returned, each once
MemberLists == {ids \in UNION {[1..n -> Handles] : n \in 0..MaxNodes} : /\ \A k \in DOMAIN ids : rg.nodes[ids[k]].st # "none"
                                                                        /\ \A j, k \in DOMAIN ids : j # k => ids[j] # ids[k]}

group_computed(node_ids) ==
    /\ rg' = IF rg.group.st # "none" THEN Raise(rg, "group_computed", 0, "KeyError")
             ELSE [Call(rg, "group_computed", 0) EXCEPT
                      !.group = [NoGroup EXCEPT !.st = "defined", !.ids = node_ids]]
    /\ GraphStep

\* the members compute() reads: those in _nodes that have the computed
Readable(g) == {h \in Handles : Tracked(g, h) /\ g.nodes[h].computed}

RECURSIVE values(_, _)
values(g, ids) ==
    IF ids = <<>> THEN <<>>
    ELSE IF Head(ids) \in Readable(g)
         THEN <<area(g.nodes[Head(ids)])>> \o values(g, Tail(ids))
         ELSE values(g, Tail(ids))

\* the reducer of the group: sum
RECURSIVE reduce_fn(_)
reduce_fn(vs) == IF vs = <<>> THEN 0 ELSE Head(vs) + reduce_fn(Tail(vs))

\* the Computed cells compute() read
no_deps(g) == {}

group_deps(g) == {g.group.ids[k] : k \in DOMAIN g.group.ids} \cap Readable(g)

\* group.computed(): the cached value, or compute() when a cell it read has
\* changed since
group_value(g) == IF g.group.valid THEN g.group.value ELSE reduce_fn(values(g, g.group.ids))

get_group ==
    /\ rg' = IF rg.group.st = "none" THEN Raise(rg, "get_group", 0, "KeyError")
             ELSE IF rg.group.valid
                  THEN [Call(rg, "get_group", 0) EXCEPT !.op.value = rg.group.value]
                  ELSE [Call(rg, "get_group", 0) EXCEPT
                           !.op.value = group_value(rg),
                           !.group.valid = TRUE, !.group.value = group_value(rg),
                           !.group.deps = group_deps(rg)]
    /\ GraphStep

Member(g, h) == \E k \in DOMAIN g.group.ids : g.group.ids[k] = h

add_to_group(h) ==
    /\ rg.nodes[h].st # "none"
    /\ rg' = IF rg.group.st = "none" THEN Raise(rg, "add_to_group", h, "KeyError")
             ELSE IF Member(rg, h) THEN Call(rg, "add_to_group", h)
             ELSE tick([Call(rg, "add_to_group", h) EXCEPT
                           !.group.ids = Append(@, h), !.group.valid = FALSE])
    /\ GraphStep

remove_from_group(h) ==
    /\ rg.nodes[h].st # "none"
    /\ rg' = IF rg.group.st = "none" THEN Raise(rg, "remove_from_group", h, "KeyError")
             ELSE IF ~Member(rg, h) THEN Call(rg, "remove_from_group", h)
             ELSE tick([Call(rg, "remove_from_group", h) EXCEPT
                           !.group.ids = list_remove(@, h), !.group.valid = FALSE])
    /\ GraphStep

\* expr.eval(ctx) raises: None * number is a TypeError
fails(n) == n.width = Null \/ n.height = Null

\* what the reactive library does with a compute() that raised: the Computed
\* keeps the value it had, or the exception reaches the caller
Libraries == {"keeps", "raises"}

\* ReactiveGraph.get: node.computeds[name](), the cached value unless a
\* Signal it read has changed since
get(h, library) ==
    /\ LET n  == rg.nodes[h]
           g0 == Call(rg, "get", h)
       IN  /\ library = "raises" => Tracked(rg, h) /\ n.computed /\ rg.cells[h].dirty /\ fails(n)
           /\ rg' = IF ~Tracked(rg, h) \/ ~n.computed THEN Raise(rg, "get", h, "KeyError")
                    ELSE IF ~rg.cells[h].dirty THEN [g0 EXCEPT !.op.value = rg.cells[h].value]
                    ELSE IF ~fails(n)
                    THEN [g0 EXCEPT !.op.value = area(n), !.cells[h] = [dirty |-> FALSE, value |-> area(n)]]
                    ELSE IF library = "keeps"
                    THEN [g0 EXCEPT !.op.value = rg.cells[h].value, !.cells[h].dirty = FALSE]
                    ELSE Raise(rg, "get", h, "TypeError")
    /\ GraphStep

\* the dicts batch_update is called with: each field at most once
FieldUpdates == [field : Fields, value : FieldValues] \cup {[field |-> Unknown, value |-> 1]}

Dicts == {u \in UNION {[1..n -> FieldUpdates] : n \in 1..MaxFields} : \A j, k \in DOMAIN u : j # k => u[j].field # u[k].field}

\* the lists a bulk call may be given
Batches(S) == UNION {[1..n -> S] : n \in 1..MaxBatch}

\* ---- the system -------------------------------------------------------------
\* the user whose program creates entities; the other users act on what is
\* shared with them
Creators == {"alice"}

NoObjs == [c \in Users |-> [e \in Entities |-> NoObj]]

Init ==
    /\ events = {}
    /\ pending = [c \in Users |-> {}]
    /\ clock = 0
    /\ pc = [c \in Users |-> "idle"]
    /\ loc = [c \in Users |-> NoCall]
    /\ obj = NoObjs
    /\ tx = [c \in Users |-> NoTx]
    /\ ret = NoRet
    /\ nshare = 0
    /\ lsn = NoListener
    /\ bus = NoBus
    /\ rg = NoGraph

\* single calls of concurrent clients and the sharing helpers
Next ==
    \E c \in Users :
        \/ \E d \in Positive : c \in Creators /\ write(c, d) /\ Notify
        \/ \E e \in Entities, d \in Positive : update_begin(c, e, d) /\ Notify
        \/ update_select(c) /\ Notify
        \/ update_insert(c) /\ Notify
        \/ \E e \in Entities : delete_begin(c, e) /\ Notify
        \/ delete_select(c) /\ Notify
        \/ delete_insert(c) /\ Notify
        \/ \E e \in Entities, s \in States : transition_begin(c, e, s) /\ Notify
        \/ transition_select(c) /\ Notify
        \/ transition_insert(c) /\ Notify
        \/ \E e \in Entities, u \in Users : share_read(c, e, u) /\ Notify
        \/ \E e \in Entities, u \in Users : share_write(c, e, u) /\ Notify
        \/ \E e \in Entities, u \in Users : unshare_read(c, e, u) /\ Notify
        \/ \E e \in Entities, u \in Users : unshare_write(c, e, u) /\ Notify
        \/ \E e \in Entities : read(c, e) /\ Notify

Spec == Init /\ [][Next]_vars

\* bulk calls: entity 1 was written by alice and shared with bob for writing
FirstRow == [eid |-> 1, version |-> 1, owner |-> "alice", updated_by |-> "alice",
             readers |-> {}, writers |-> {"bob"}, data |-> 1,
             state |-> initial, event_type |-> "CREATED", tx_time |-> 1]

InitBulk ==
    /\ events = {FirstRow}
    /\ pending = [c \in Users |-> {}]
    /\ clock = 1
    /\ pc = [c \in Users |-> "idle"]
    /\ loc = [c \in Users |-> NoCall]
    /\ obj = [NoObjs EXCEPT !["alice"][1] =
                [version |-> 1, state |-> initial, data |-> 1,
                 sm |-> "OrderLifecycle"]]
    /\ tx = [c \in Users |-> NoTx]
    /\ ret = NoRet
    /\ nshare = 1
    /\ lsn = NoListener
    /\ bus = NoBus
    /\ rg = NoGraph

NextBulk ==
    \E c \in Users :
        \/ \E e \in Entities, d \in Positive : update_begin(c, e, d) /\ Notify
        \/ update_select(c) /\ Notify
        \/ update_insert(c) /\ Notify
        \/ \E e \in Entities : delete_begin(c, e) /\ Notify
        \/ delete_select(c) /\ Notify
        \/ delete_insert(c) /\ Notify
        \/ \E e \in Entities, s \in States : transition_begin(c, e, s) /\ Notify
        \/ transition_select(c) /\ Notify
        \/ transition_insert(c) /\ Notify
        \/ \E e \in Entities : read(c, e) /\ Notify
        \/ \E ds \in Batches(NewObjects) : c \in Creators /\ write_many_begin(c, ds) /\ Notify
        \/ write_many_next(c) /\ Notify
        \/ \E es \in Batches(Entities) : update_many_begin(c, es) /\ Notify
        \/ update_many_next(c) /\ Notify
        \/ commit(c) /\ Notify
        \/ rollback(c) /\ Notify

SpecBulk == InitBulk /\ [][NextBulk]_vars

\* the trust boundary: users who write through the client and users who
\* issue their own statements to store rows that name another user as owner
\* or updated_by
NextTrust ==
    \E c \in Users :
        \/ \E d \in Positive : c \in Creators /\ write(c, d) /\ Notify
        \/ \E e \in Entities, d \in Positive : update_begin(c, e, d) /\ Notify
        \/ update_select(c) /\ Notify
        \/ update_insert(c) /\ Notify
        \/ \E e \in Entities : delete_begin(c, e) /\ Notify
        \/ delete_select(c) /\ Notify
        \/ delete_insert(c) /\ Notify
        \/ \E e \in Entities, s \in States : transition_begin(c, e, s) /\ Notify
        \/ transition_select(c) /\ Notify
        \/ transition_insert(c) /\ Notify
        \/ \E e \in Entities : read(c, e) /\ Notify
        \/ \E e \in Entities :
           \E ver \in {1, MaxVer(RowsOf(e, events)) + 1}, owner \in Users,
              by \in Users, writers \in {{}, {c}} :
                /\ owner # c \/ by # c
                /\ raw_insert(c, e, ver, owner, by, writers) /\ Notify
        \/ \E e \in Entities, col \in {"owner", "updated_by"}, u \in Users \ {c} :
                raw_update(c, e, col, u) /\ Notify

SpecTrust == Init /\ [][NextTrust]_vars

\* lifecycles: one program writes objects of the four lifecycles, changes
\* their data and walks their edges
NextFlow ==
    \E c \in Creators :
        \/ \E d \in Quantities, sm \in Machines : write_as(c, d, sm) /\ Notify
        \/ \E e \in Entities, d \in Quantities : update_begin(c, e, d) /\ Notify
        \/ update_select(c) /\ Notify
        \/ update_insert(c) /\ Notify
        \/ \E e \in Entities, s \in AllStates : transition_begin(c, e, s) /\ Notify
        \/ transition_select(c) /\ Notify
        \/ transition_insert(c) /\ Notify
        \/ \E e \in Entities : read(c, e) /\ Notify

SpecFlow == Init /\ [][NextFlow]_vars

\* a listener beside two writers: alice writes new orders in bulk while bob,
\* a writer of entity 1, updates it; the listener is started and stopped
NextListen ==
    \/ \E c \in Users :
        \/ \E e \in Entities, d \in Positive : update_begin(c, e, d) /\ Notify
        \/ update_select(c) /\ Notify
        \/ update_insert(c) /\ Notify
        \/ \E ds \in Batches(NewOrders) : c \in Creators /\ write_many_begin(c, ds) /\ Notify
        \/ write_many_next(c) /\ Notify
        \/ commit(c) /\ Notify
        \/ \E payload \in Skipped \cup Fatal : c \notin Creators /\ raw_notify(c, payload)
    \/ start
    \/ \E k \in 1..MaxEvents : start_crash(k)
    \/ poll
    \/ handle_notify
    \/ loop_exit
    \/ stop
    \/ stop_return

SpecListen == InitBulk /\ [][NextListen]_vars

\* an event bus whose subscribers come and go while a thread emits
NextBus ==
    \/ \E cb \in Callbacks :
        \/ \E t \in Types : on(t, cb)
        \/ \E e \in Entities : on_entity(e, cb)
        \/ on_all(cb)
        \/ \E t \in Types : off(t, cb)
        \/ \E e \in Entities : off_entity(e, cb)
        \/ off_all(cb)
    \/ \E event \in ChangeEvents : emit_begin(event)
    \/ emit_call
    \/ emit_return

SpecBus == Init /\ [][NextBus]_vars

\* a program that tracks Rectangles, defines their "area" and registers and
\* removes effects on it
NextGraph ==
    \/ \E width, height \in FieldValues : track(width, height)
    \/ \E h \in Handles :
        \/ computed(h)
        \/ \E kept \in BOOLEAN : effect(h, kept)
        \/ \E field \in Fields \cup {Unknown}, value \in FieldValues : update(h, field, value)
        \/ \E updates \in Dicts, drained \in BOOLEAN : batch_update(h, updates, drained)
        \/ remove_effect(h)
        \/ untrack(h)

SpecGraph == Init /\ [][NextGraph]_vars

\* a program that has tracked MaxNodes Rectangles, some with an "area", and
\* now aggregates the areas in a group whose members and fields change
InitGroup ==
    /\ events = {}
    /\ pending = [c \in Users |-> {}]
    /\ clock = 0
    /\ pc = [c \in Users |-> "idle"]
    /\ loc = [c \in Users |-> NoCall]
    /\ obj = NoObjs
    /\ tx = [c \in Users |-> NoTx]
    /\ ret = NoRet
    /\ nshare = 0
    /\ lsn = NoListener
    /\ bus = NoBus
    /\ \E ns \in [Handles -> [st : {"tracked"}, width : FieldValues, height : FieldValues, computed : BOOLEAN, slot : {0}]] :
          rg = [NoGraph EXCEPT !.nodes = ns]

NextGroup ==
    \/ \E h \in Handles :
        \/ \E field \in Fields \cup {Unknown}, value \in FieldValues : update(h, field, value)
        \/ \E updates \in Dicts : batch_update(h, updates, TRUE)
        \/ add_to_group(h)
        \/ remove_from_group(h)
    \/ \E node_ids \in MemberLists : group_computed(node_ids)
    \/ get_group

SpecGroup == InitGroup /\ [][NextGroup]_vars

\* the same program, which also untracks Rectangles
NextUntrack ==
    \/ \E h \in Handles :
        \/ \E field \in Fields, value \in FieldValues : update(h, field, value)
        \/ untrack(h)
        \/ add_to_group(h)
        \/ remove_from_group(h)
    \/ \E node_ids \in MemberLists : group_computed(node_ids)
    \/ get_group

SpecUntrack == InitGroup /\ [][NextUntrack]_vars

\* a program that reads the "area" of Rectangles whose fields may be None
NextGet ==
    \/ \E width, height \in FieldValues \cup {Null} : track(width, height)
    \/ \E h \in Handles :
        \/ computed(h)
        \/ \E field \in Fields, value \in FieldValues \cup {Null} : update(h, field, value)
        \/ \E library \in Libraries : get(h, library)

SpecGet == Init /\ [][NextGet]_vars

\* a listener whose start() runs beside a writer: entity 1 is updated while
\* the listener loads its checkpoint, catches up and subscribes
NextStart ==
    \/ \E c \in Users :
        \/ \E e \in Entities, d \in Positive : update_begin(c, e, d) /\ Notify
        \/ update_select(c) /\ Notify
        \/ update_insert(c) /\ Notify
    \/ start_catch_up
    \/ start_listen
    \/ poll
    \/ handle_notify
    \/ loop_exit
    \/ stop
    \/ stop_return

SpecStart == InitBulk /\ [][NextStart]_vars

\* a listener connected as the subscriber beside clients that write and
\* update orders of their own, shared with nobody
NextPrivate ==
    \/ \E c \in Users :
        \/ \E d \in Positive : write(c, d) /\ Notify
        \/ \E e \in Entities, d \in Positive : update_begin(c, e, d) /\ Notify
        \/ update_select(c) /\ Notify
        \/ update_insert(c) /\ Notify
    \/ start
    \/ poll
    \/ handle_notify
    \/ loop_exit
    \/ stop
    \/ stop_return

SpecPrivate == Init /\ [][NextPrivate]_vars

\* ==== claims ==================================================================
Mutations == {"update", "delete", "transition"}

\* the committed row of entity e with version v (a set: empty if there is none)
RowAt(e, v) == {r \in events : r.eid = e /\ r.version = v}

GapFree(S) ==
    \A e \in Entities :
        {r.version : r \in RowsOf(e, S)} = 1..Cardinality(RowsOf(e, S))

\* C1: the versions of every entity's events are exactly 1..n, without gap or
\* duplicate, in the table and in every connection's snapshot of it, and a call
\* that inserts a row inserts the entity's new highest version.
C1_VersionsGapFree ==
    /\ GapFree(events)
    /\ \A c \in Users : GapFree(Snapshot(c))
    /\ ret.inserted > 0 =>
         ret.inserted = MaxVer(RowsOf(ret.e, Snapshot(ret.c)))

\* both users have appended versions of one entity
C1_Witness ==
    \E e \in Entities :
        /\ Cardinality(RowsOf(e, events)) = MaxEvents
        /\ {r.updated_by : r \in RowsOf(e, events)} = Users

\* C2: an update or delete with an object at version N, begun when the entity's
\* latest stored version is N+1, raises VersionConflict(expected=N, actual=N+1)
\* and inserts nothing.
C2_StaleRaisesVersionConflict ==
    (ret.op \in {"update", "delete"} /\ ret.true_max = ret.held + 1) =>
        /\ ret.outcome = "VersionConflict"
        /\ ret.actual = ret.held + 1
        /\ ret.inserted = 0

\* C3: of the mutations run by clients that hold the same version N only one
\* appends, and it appends N+1: a call that inserts a row inserts the successor
\* of the version its object held, and a call whose object was stale fails.
C3_NoStaleAppend ==
    ret.op \in Mutations =>
        /\ ret.inserted > 0 => ret.inserted = ret.held + 1
        /\ ret.true_max > ret.held => ret.inserted = 0

\* every committed row is kept as it was, and the rows a step adds carry
\* versions above the entity's old ones
KeepsRows ==
    /\ \A r \in events : \E s \in events' :
            /\ s.eid = r.eid /\ s.version = r.version /\ s.data = r.data
            /\ s.state = r.state /\ s.event_type = r.event_type
            /\ s.owner = r.owner /\ s.updated_by = r.updated_by
            /\ s.tx_time = r.tx_time
    /\ Cardinality(events') >= Cardinality(events)
    /\ \A t \in events' \ events :
            t.version > MaxVer(RowsOf(t.eid, events))

\* C4: the event log is append-only: every step keeps every committed row with
\* its entity_id, version, data, state, event kind, owner, updated_by and
\* tx_time, and the rows it adds carry versions above the entity's old ones.
C4_AppendOnly == [][KeepsRows]_vars

\* a bulk update was rolled back after a tombstone had been written
C4_Witness ==
    /\ ret.op = "update_many"
    /\ ret.outcome = "VersionConflict"
    /\ \E r \in events : r.event_type = "DELETED"

Listed(P, r) == r.owner = P \/ P \in r.readers \/ P \in r.writers

\* the entities of which some version lists P
ListedEntities(P) ==
    {e \in Entities : \E r \in RowsOf(e, events) : Listed(P, r)}

AuthorKept ==
    \A r \in events' :
        IF \E q \in events : SameKey(q, r)
        THEN \E q \in events :
                /\ SameKey(q, r)
                /\ q.updated_by = r.updated_by
                /\ r.version = 1 => q.owner = r.owner
        ELSE /\ r.updated_by = ret'.c
             /\ r.version = 1 => r.owner = ret'.c

\* C6: every stored row's updated_by is the user whose connection inserted it
\* and every version 1 is owned by that user: a row enters the table with the
\* acting user in these columns and no later statement of a user changes them.
C6_UpdatedByUnforgeable == [][AuthorKept]_vars

\* C7: the version an update, delete or transition appends carries the owner,
\* readers and writers of the version before it.
C7_AclCarriedForward ==
    (ret.op \in Mutations /\ ret.inserted > 1) =>
        \A r \in RowAt(ret.e, ret.inserted) :
            \A q \in RowAt(ret.e, ret.inserted - 1) :
                /\ r.owner = q.owner
                /\ r.readers = q.readers
                /\ r.writers = q.writers

\* C8: after a delete succeeded, every user who could read the entity before
\* (the previous version lists the user) gets null from read, no item from
\* query, and every version including the tombstone from history.
C8_TombstoneForAllReaders ==
    (ret.op = "delete" /\ ret.outcome = "ok") =>
        \A P \in Users :
            (\E q \in RowAt(ret.e, ret.inserted - 1) : Listed(P, q)) =>
                /\ ReadRow(P, ret.e) = {}
                /\ \A r \in query(P) : r.eid # ret.e
                /\ history(P, ret.e) = RowsOf(ret.e, events)

PermissionErrors == {"PermissionError", "InsufficientPrivilege"}

C10_WriterCanMutate ==
    (ret.op \in Mutations /\ ret.role = "writer") =>
        /\ ret.outcome \notin PermissionErrors
        /\ \A r \in RowAt(ret.e, ret.inserted) :
             /\ r.updated_by = ret.c
             /\ \A q \in RowAt(ret.e, 1) : r.owner = q.owner

\* the (entity, version, readers, writers) of every stored row
Acl(S) == {<<r.eid, r.version, r.readers, r.writers>> : r \in S}

\* C11: a sharing statement changes readers or writers only of rows on which
\* the caller is owner or writer; called by a user who is neither owner nor
\* writer of any version (a reader, or a stranger) it leaves the readers and
\* writers of every version as they were.
C11_OnlyOwnerOrWriterShares ==
    [][ret'.op = "share" =>
         /\ \A r \in events \ events' : r.owner = ret'.c \/ ret'.c \in r.writers
         /\ Role(ret'.c, ret'.e) \notin {"owner", "writer"} =>
                Acl(events') = Acl(events)]_vars

\* a user who is only a reader called a sharing function and got False
C11_Witness ==
    /\ ret.op = "share"
    /\ Role(ret.c, ret.e) = "reader"
    /\ ret.outcome = "False"

BulkOps == {"write_many", "update_many"}

\* the rows of a bulk call reach the table only together, when the call ends
\* without an exception; a bulk call that raises leaves the table as it was
AllOrNothing ==
    /\ \A r \in events' \ events :
         InTx(r.updated_by) =>
            /\ pending[r.updated_by] \subseteq events'
            /\ ret'.c = r.updated_by
            /\ ret'.op \in BulkOps
            /\ ret'.outcome = "ok"
    /\ (ret'.op \in BulkOps /\ ret'.outcome # "ok") =>
            /\ events' = events
            /\ pending'[ret'.c] = {}

\* C12: write_many and update_many are all-or-nothing: a call that fails on an
\* element persists no event of the call and leaves the store's events as they
\* were; the events of a call are persisted only all together by its commit.
C12_BulkAllOrNothing == [][AllOrNothing]_vars

\* write_many raised on a later object after an earlier one had been written:
\* the client's object carries version 1 of an entity the table does not hold
C12_Witness ==
    /\ ret.op = "write_many"
    /\ ret.outcome = "AttributeError"
    /\ \E e \in Entities :
          /\ obj[ret.c][e].version = 1
          /\ RowsOf(e, AllRows) = {}

\* ---- transitions ------------------------------------------------------------
AllEdges == UNION {transitions(sm) : sm \in Machines}

\* the transition call that just ended had passed validation
Walked == ret.op = "transition" /\ ret.from_state # "none"

\* the edge that call went along
RetEdge ==
    CHOOSE t \in AllEdges :
        t.from_state = ret.from_state /\ t.to_state = ret.to_state

\* the STATE_CHANGE events of entity e that lead to state s
StateChanges(e, s) ==
    {r \in events : r.eid = e /\ r.event_type = "STATE_CHANGE" /\ r.state = s}

\* C13: when the action of the edge raises, the call raises, no STATE_CHANGE
\* event is persisted, the stored state of the entity is still the old state
\* and no hook or workflow dispatch has run.
C13_ActionFailureRollsBack ==
    (Walked /\ RetEdge.action = "raises") =>
        /\ ret.outcome # "ok"
        /\ ret.inserted = 0
        /\ StateChanges(ret.e, ret.to_state) = {}
        /\ LatestRow(RowsOf(ret.e, events)).state = ret.from_state
        /\ ret.effects = <<>>

\* C14: a transition of an object whose held version is not the entity's
\* latest version raises VersionConflict and appends nothing.
C14_TransitionChecksVersion ==
    (Walked /\ ret.true_max # ret.held) =>
        ret.outcome = "VersionConflict" /\ ret.inserted = 0

ValidationErrors == {"InvalidTransition", "GuardFailure", "TransitionNotPermitted"}

FailedValidationNoEffect ==
    (ret'.op = "transition" /\ ret'.outcome \in ValidationErrors) =>
        /\ events' = events
        /\ pending' = pending
        /\ obj' = obj
        /\ ret'.effects = <<>>

\* C15: a transition that fails validation (InvalidTransition, GuardFailure,
\* TransitionNotPermitted) appends no event, runs no side effect and leaves
\* the object's in-memory state and version as they were.
C15_FailedValidationNoEffect == [][FailedValidationNoEffect]_vars

C15_Witness ==
    /\ ret.op = "transition"
    /\ ret.outcome = "GuardFailure"
    /\ obj[ret.c][ret.e].state = "PENDING"
    /\ obj[ret.c][ret.e].data = 0
    /\ ret.to_state = "FILLED"

\* the side effects edge t declares, in the order action, on_exit, on_enter,
\* workflow dispatch
Declared(t) ==
    (IF t.action # "none" THEN <<"action">> ELSE <<>>)
    \o (IF t.on_exit # "none" THEN <<"on_exit">> ELSE <<>>)
    \o (IF t.on_enter # "none" THEN <<"on_enter">> ELSE <<>>)
    \o (IF t.start_workflow # "none" THEN <<"start_workflow">> ELSE <<>>)

\* C16: a transition that persisted its event returns after running the
\* side effects its edge declares in the order action, on_exit, on_enter,
\* workflow dispatch.
C16_SideEffectOrder ==
    (Walked /\ ret.inserted > 0) =>
        ret.outcome = "ok" /\ ret.effects = Declared(RetEdge)

\* C17: when an on_exit or on_enter hook of the edge raises, the transition
\* still returns normally and its STATE_CHANGE event stays.
C17_HookFailureSwallowed ==
    (Walked /\ ret.inserted > 0
       /\ (RetEdge.on_exit = "raises" \/ RetEdge.on_enter = "raises")) =>
        ret.outcome = "ok" /\ StateChanges(ret.e, ret.to_state) # {}

\* C18: after a transition persisted its event along an edge that declares
\* start_workflow, the workflow has been dispatched exactly once.
C18_WorkflowDispatchedOnce ==
    (Walked /\ ret.inserted > 0 /\ RetEdge.start_workflow = "declared") =>
        Cardinality({i \in DOMAIN ret.effects :
                        ret.effects[i] = "start_workflow"}) = 1

\* C19: a transition along an edge whose guard reads a field the object does
\* not have fails with GuardFailure and appends no event.
C19_UnknownFieldGuardFailure ==
    (/\ ret.op = "transition"
     /\ \E t \in transitions(obj[ret.c][ret.e].sm) :
           /\ t.from_state = obj[ret.c][ret.e].state
           /\ t.to_state = ret.to_state
           /\ t.guard # "none" /\ Field_eval(t) = "KeyError") =>
        ret.outcome = "GuardFailure" /\ ret.inserted = 0

\* ---- subscriptions ----------------------------------------------------------
\* the listener was stopped, has been started again and its catch-up is over
Restarted == lsn.run = "up" /\ lsn.starts > 1

\* C20: after a restart from a persisted checkpoint the catch-up has emitted
\* every event persisted while the listener was down exactly once, in
\* ascending tx_time, and no event the listener had emitted before.
C20_CatchUpComplete ==
    Restarted =>
        /\ \A r \in lsn.missed :
              Cardinality({i \in DOMAIN lsn.replayed : lsn.replayed[i] = r}) = 1
        /\ \A i, j \in DOMAIN lsn.replayed :
              i < j => lsn.replayed[i].tx_time <= lsn.replayed[j].tx_time
        /\ \A i \in DOMAIN lsn.replayed : lsn.replayed[i] \notin lsn.before

\* ---- queries ----------------------------------------------------------------
\* C23: query(cls, filters) returns an entity iff the entity's latest version
\* is not a tombstone and satisfies the filters, and the item returned for it
\* is that latest version.
C23_QueryLatestMatching ==
    \A c \in Creators, q \in Quantities, e \in Entities :
        pc[c] = "idle" =>
            LET S == RowsOf(e, events)
                hit == RowsOf(e, query_filtered(c, q))
            IN  /\ Cardinality(hit) <= 1
                /\ hit # {} <=> /\ S # {}
                                /\ LatestRow(S).event_type # "DELETED"
                                /\ LatestRow(S).data = q
                /\ \A r \in hit : r = LatestRow(S)

\* the committed events a client that is between calls can see
Seen(c) == IF pc[c] = "idle" THEN View(c) ELSE {}

C25_TxTimeMonotone ==
    \A r, s \in events :
        (r.eid = s.eid /\ r.version < s.version) => r.tx_time <= s.tx_time

\* a bulk call has not committed yet while an event of a later tx_time is
\* already stored, and some entity has versions written by two clients
C25_Witness ==
    /\ \E c \in Users : \E p \in pending[c] : \E r \in events :
          r.tx_time > p.tx_time
    /\ \E r, s \in events :
          /\ r.eid = s.eid /\ r.version < s.version
          /\ r.updated_by # s.updated_by /\ r.tx_time < s.tx_time

\* C21: once stop() has returned the thread has ended, no event is emitted
\* any more, and the checkpoint of the last notification handled is stored.
C21_StopIsFinal ==
    /\ lsn.late = {}
    /\ lsn.run = "down" /\ lsn.crash_at = 0 =>
          /\ lsn.thread = "none"
          /\ lsn.last_tx_time # 0 => lsn.checkpoint = lsn.last_tx_time

\* C26: a listener that dies in its catch-up after it emitted k events has
\* stored the tx_time of the k-th event as its checkpoint.
C26_CatchUpCheckpointPerEvent ==
    lsn.crash_at # 0 => lsn.checkpoint = lsn.crash_at

\* the thread handles a notification whose payload is malformed
HandlesMalformed ==
    /\ lsn.thread = "handling"
    /\ lsn.inflight.payload \in Skipped \cup Fatal
    /\ lsn'.inflight # lsn.inflight \/ lsn'.thread # "handling"

MalformedSkipped ==
    HandlesMalformed =>
        /\ lsn'.live = lsn.live
        /\ lsn'.late = lsn.late
        /\ lsn'.checkpoint = lsn.checkpoint
        /\ lsn'.thread \in {"handling", "waiting"}
        /\ lsn'.error = "none"

\* C27: handling a notification with a malformed payload emits nothing,
\* leaves the checkpoint alone and leaves the thread running.
C27_MalformedSkipped == [][MalformedSkipped]_vars

\* ---- event bus ---------------------------------------------------------------
\* the callbacks of an emit's snapshot before position n
Before(n) == SubSeq(bus.listeners, 1, n - 1)

\* C22: every subscriber in the list an emit took under the lock is invoked,
\* in the order catch-all, type, entity, whatever the subscribers before it
\* raised and whatever was subscribed or unsubscribed since: while the emit
\* runs it has invoked exactly the subscribers before its position, it never
\* ends by raising, and when it has returned it has invoked the whole list
C22_EmitReachesEverySubscriber ==
    /\ bus.result # "raised"
    /\ bus.pc = "emitting" => bus.invoked = Before(bus.pos)
    /\ bus.result = "returned" => bus.invoked = bus.listeners

\* an emit has returned after invoking a raiser and then a subscriber of each
\* other registry, one of which was unsubscribed while the emit ran
C22_Witness ==
    /\ bus.result = "returned"
    /\ Len(bus.invoked) = MaxSubs
    /\ bus.invoked[1] \in Raisers
    /\ bus.invoked[MaxSubs] \notin Raisers
    /\ Subscriptions < MaxSubs

\* ---- reactive graph ----------------------------------------------------------
\* C28: a batch_update is one step for the effects: the call runs each
\* callback at most once, and a callback on the node's computed is called
\* with the value computed from all of the dict's field values
C28_BatchIsOneStep ==
    rg.op.name = "batch_update" =>
        /\ \A j, k \in DOMAIN rg.fired : rg.fired[j].cb = rg.fired[k].cb => j = k
        /\ \A k \in DOMAIN rg.fired :
              rg.effs[rg.fired[k].cb].node = rg.op.node =>
                  rg.fired[k].value = area(rg.op.target)

\* what the reducer yields on the current values of the current members
Aggregate == reduce_fn(values(rg, rg.group.ids))

\* C29: whatever updates and batch_updates of the nodes and add_to_group and
\* remove_from_group calls were made, get_group of a group_computed returns
\* the reducer applied to the current values of the computed over the
\* current members
C29_GroupFollowsMembers ==
    rg.group.st = "defined" => group_value(rg) = Aggregate

\* the group had computed its value over all the nodes when an update of one
\* of them changed the aggregate: the cached value is stale and marked so
C29_Witness ==
    /\ rg.op.name = "update" /\ rg.op.err = "none"
    /\ Member(rg, rg.op.node)
    /\ Len(rg.group.ids) = MaxNodes
    /\ rg.group.deps = Handles
    /\ ~rg.group.valid
    /\ rg.group.value # Aggregate

\* C30: a callback registered on a computed is not called any more once
\* remove_effect or untrack has been called on that computed's node
C30_RemovedCallbackIsSilent ==
    \A k \in DOMAIN rg.fired : rg.fired[k].cb \notin rg.removed

\* a batch_update that raised left the nodes as they were
FailedBatchAppliesNothing ==
    rg'.op.name = "batch_update" /\ rg'.op.err = "KeyError" => rg'.nodes = rg.nodes

\* C39: a batch_update whose dict names a field the node does not have
\* raises and sets nothing: every field of the node keeps the value it had
\* before the call
C39_FailedBatchAppliesNothing == [][FailedBatchAppliesNothing]_vars

\* C40: once a member of a group_computed has been untracked, get_group is
\* the reducer over the members still tracked: the value the untracked node
\* had is not part of it
C40_UntrackedMemberLeavesGroup ==
    rg.op.name = "untrack" /\ rg.group.st = "defined" /\ Member(rg, rg.op.node) =>
        group_value(rg) = Aggregate

\* C31: a computed whose expression fails yields null: get of it returns
\* null and raises nothing
C31_FailedComputedIsNull ==
    /\ rg.op.name = "get"
    /\ Tracked(rg, rg.op.node)
    /\ rg.nodes[rg.op.node].computed
    /\ fails(rg.nodes[rg.op.node])
    => rg.op.err = "none" /\ rg.op.value = Null

\* ---- listener start-up --------------------------------------------------------
\* the events the running listener has emitted or still holds as notifications
Delivered ==
    Range(lsn.replayed) \cup lsn.live
        \cup {lsn.notifies[k].row : k \in DOMAIN lsn.notifies} \cup {lsn.inflight.row}

\* C32: no event is lost across a start(): an event committed while start()
\* was executing has been emitted by the catch-up, or has been emitted or is
\* queued as a notification in the live phase
C32_NoEventLostAcrossStart ==
    lsn.run = "up" => lsn.racing \subseteq Delivered

\* ---- checkpoint ---------------------------------------------------------------
CheckpointAdvances == lsn'.checkpoint >= lsn.checkpoint

\* C35: the persisted checkpoint of a subscriber never decreases: handling a
\* notification whose tx_time is earlier than the checkpoint leaves it
C35_CheckpointNeverDecreases == [][CheckpointAdvances]_vars

\* ---- what a listener dispatches -------------------------------------------------
\* the events the listener has emitted to its bus
Emitted == Range(lsn.replayed) \cup lsn.live \cup lsn.before \cup lsn.late

\* C36: a listener connected as a user that is no admin emits, in the
\* catch-up and in the live phase, only events of entities that user may
\* read (as owner, reader or writer)
C36_ListenerEmitsReadableOnly ==
    ~admin_all(subscriber) => \A r \in Emitted : user_select(subscriber, r)

\* ---- C33 ---------------------------------------------------------------------
\* an update that held the current version, passed the version check and then
\* found its version taken by another client's update
LostRace ==
    /\ ret.op = "update"
    /\ ret.role # "unset"
    /\ ret.outcome \notin {"ok", "PermissionError"}
    /\ ret.held = ret.true_max
    /\ \E s \in events : /\ s.eid = ret.e
                         /\ s.version = ret.held + 1
                         /\ s.updated_by # ret.c

\* C33: of two concurrent updates that both hold version N and both pass the
\* version check before either inserts, the one that loses fails with
\* VersionConflict(expected = N, actual = N + 1)
C33_LostRaceIsVersionConflict ==
    LostRace => ret.outcome = "VersionConflict" /\ ret.actual = ret.held + 1

\* ---- C34 ---------------------------------------------------------------------
TestStates == UNION {{t.from_state, t.to_state} : t \in TestOrderLifecycle}

\* orders of the test suite's lifecycle, moved by two clients that each hold
\* their own copy of an order
NextStale ==
    \E c \in Users :
        \/ \E d \in Positive : c \in Creators /\ write_as(c, d, "TestOrderLifecycle") /\ Notify
        \/ \E e \in Entities, u \in Users : share_write(c, e, u) /\ Notify
        \/ \E e \in Entities : read_as(c, e, "TestOrderLifecycle") /\ Notify
        \/ \E e \in Entities, s \in TestStates : transition_begin(c, e, s) /\ Notify
        \/ transition_select(c) /\ Notify
        \/ transition_insert(c) /\ Notify

SpecStale == Init /\ [][NextStale]_vars

\* the states no edge of the lifecycle leaves
Terminal == {s \in TestStates : \A t \in TestOrderLifecycle : t.from_state # s}

\* C34: under any interleaving of transitions by clients whose copies may be
\* stale, two consecutive versions of an order whose states differ are joined
\* by an edge of the lifecycle, and an order in a terminal state stays there
C34_HistoryFollowsEdges ==
    \A r, s \in events :
        r.eid = s.eid /\ s.version = r.version + 1 =>
            /\ r.state # s.state =>
                   get_transition("TestOrderLifecycle", r.state, s.state) # {}
            /\ r.state \in Terminal => s.state = r.state

\* ---- C37 ---------------------------------------------------------------------
\* page sizes a caller asks for
Limits == 1..MaxEntities

\* rows of equal tx_time have no defined order under ORDER BY tx_time DESC:
\* the server may return them by ascending or by descending entity_id
TieOrders == {"asc", "desc"}

\* the first row of S under ORDER BY tx_time DESC (S non-empty)
FirstByTxTime(S, tie) ==
    CHOOSE r \in S : \A s \in S :
        \/ r.tx_time > s.tx_time
        \/ /\ r.tx_time = s.tx_time
           /\ IF tie = "asc" THEN r.eid <= s.eid ELSE r.eid >= s.eid

\* ORDER BY tx_time DESC LIMIT n
RECURSIVE OrderLimit(_, _, _)
OrderLimit(S, n, tie) ==
    IF n = 0 \/ S = {} THEN <<>>
    ELSE LET r == FirstByTxTime(S, tie)
         IN  <<r>> \o OrderLimit(S \ {r}, n - 1, tie)

\* StoreClient.query(cls, limit=limit, cursor=cursor).items; cursor 0 is None
query_page(c, limit, cursor, tie) ==
    OrderLimit({r \in query(c) : cursor = 0 \/ r.tx_time < cursor}, limit, tie)

\* QueryResult.next_cursor of a page, 0 for None
next_cursor(items, limit) ==
    IF Len(items) = limit THEN items[Len(items)].tx_time ELSE 0

\* the caller's loop: pages are fetched until next_cursor is None
RECURSIVE AllPages(_, _, _, _)
AllPages(c, limit, cursor, tie) ==
    LET items == query_page(c, limit, cursor, tie)
    IN  IF next_cursor(items, limit) = 0 THEN items
        ELSE items \o AllPages(c, limit, next_cursor(items, limit), tie)

\* single and bulk writes and deletes of the creators
NextPage ==
    \E c \in Creators :
        \/ \E d \in Positive : write(c, d) /\ Notify
        \/ \E e \in Entities : delete_begin(c, e) /\ Notify
        \/ delete_select(c) /\ Notify
        \/ delete_insert(c) /\ Notify
        \/ \E ds \in Batches(NewObjects) : write_many_begin(c, ds) /\ Notify
        \/ write_many_next(c) /\ Notify
        \/ commit(c) /\ Notify
        \/ rollback(c) /\ Notify

SpecPage == Init /\ [][NextPage]_vars

\* C37: following next_cursor from the first page until it is null returns
\* every current non-deleted entity exactly once, for every page size and
\* every distribution of tx_time, the store being unchanged between pages
C37_PagingReturnsAllOnce ==
    \A c \in Creators, limit \in Limits, tie \in TieOrders :
        pc[c] = "idle" =>
            LET items == AllPages(c, limit, 0, tie)
            IN  /\ Range(items) = query(c)
                /\ Len(items) = Cardinality(query(c))

\* ---- C38 ---------------------------------------------------------------------
\* the step in which a failed write_many or update_many rolls back leaves
\* every object of the caller with the entity_id and version it had before
\* the call
MetadataRestored ==
    \A c \in Users :
        pc[c] = "tx_abort" /\ pc'[c] = "idle" =>
            \A e \in Entities :
                /\ (obj'[c][e] = NoObj) = (tx[c].before[e] = NoObj)
                /\ obj'[c][e].version = tx[c].before[e].version

\* C38: after a write_many or update_many that failed and was rolled back,
\* the in-memory entity_id and version of every object passed to it are what
\* they were before the call
C38_RollbackRestoresMetadata == [][MetadataRestored]_vars

====
